---- MODULE Spec2Model ----
(***************************************************************************)
(* A model of fix_dates.py, the sequence date repair of CSV files, and of   *)
(* detect_frequency, detect_timespan and process_files of                  *)
(* reorganize_csvs.py.                                                     *)
(*                                                                         *)
(* Text is modelled as a sequence of one-character strings, so that        *)
(* parse_date, format_date, str.split and str.join are computed on the     *)
(* characters, as the code computes them.  A file is the sequence of its   *)
(* lines (without line terminators).  Indices are 1-based here: row i of   *)
(* the code (0-based) is row i + 1 of the model.                           *)
(***************************************************************************)
EXTENDS Integers, Sequences, FiniteSets, TLC

VARIABLES
    file,            \* the content of the CSV file on disk: a sequence of lines
    pc,              \* the position of process_csv
    run,             \* the number of the current call of process_csv on the file
    lines,           \* process_csv: lines
    header,          \* process_csv: header
    data_lines,      \* process_csv: data_lines
    records,         \* process_csv: records
    first_valid_idx, \* process_csv: first_valid_idx (0 is None)
    valid_years,     \* process_csv: valid_years
    valid_indices,   \* process_csv: valid_indices
    ascending,       \* process_csv: ascending
    i,               \* process_csv: the index of the repair loop
    inferred,        \* process_csv: inferred_year of each row visited ({} is None)
    fixed_count,     \* process_csv: fixed_count
    ret,             \* the value returned by the current call (-1: not returned)
    wrote,           \* whether the current call has opened the file for writing
    before,          \* the content of the file when the current call started
    log,             \* the finished calls: return value, rows left verbatim, corrupted rows
    tree,            \* main: the sorted entries of BASE_DIR, each with its sorted entries
    main_pc,         \* the position of main
    section,         \* main: the index of the loop over BASE_DIR
    csv_file,        \* main: the index of the loop over the section
    total_fixed,     \* main: total_fixed
    files_fixed,     \* main: files_fixed
    section_fixed,   \* main: section_fixed
    processed,       \* the files on which main's call of process_csv has returned
    dates,           \* detect_frequency: dates
    freq_pc,         \* the position of detect_frequency
    frequency,       \* the label detect_frequency has returned ("": not returned)
    base_dir,        \* process_files: the sorted sections of BASE_DIR, their charts and files
    org_pc,          \* the position of process_files
    org_section,     \* process_files: the index of the loop over BASE_DIR
    org_chart,       \* process_files: the index of the loop over the section
    org_file,        \* process_files: the index of the loop over the chart folder
    output,          \* OUTPUT_DIR: the files copied, each with the source it holds
    results          \* process_files: results

procVars == <<file, pc, run, lines, header, data_lines, records, first_valid_idx,
              valid_years, valid_indices, ascending, i, inferred, fixed_count, ret,
              wrote, before, log>>

mainVars == <<tree, main_pc, section, csv_file, total_fixed, files_fixed,
              section_fixed, processed>>

freqVars == <<dates, freq_pc, frequency>>

orgVars == <<base_dir, org_pc, org_section, org_chart, org_file, output, results>>

vars == <<procVars, mainVars, freqVars, orgVars>>

(***************************************************************************)
(* Bounds of the model.                                                    *)
(***************************************************************************)
MaxRows == 3
MaxSeq == 4
MaxGap == 9
MaxRuns == 3
MaxStep == 5
MaxSections == 2
MaxFiles == 2
MaxDates == 3

(***************************************************************************)
(* Characters and numbers.                                                 *)
(***************************************************************************)
DigitSeq == <<"0", "1", "2", "3", "4", "5", "6", "7", "8", "9">>

IsDigit(c) == \E d \in 1..10 : DigitSeq[d] = c

DigitVal(c) == (CHOOSE d \in 1..10 : DigitSeq[d] = c) - 1

\* int(s) of a string of decimal digits
RECURSIVE ToInt(_)
ToInt(s) ==
    IF Len(s) = 0 THEN 0
    ELSE 10 * ToInt(SubSeq(s, 1, Len(s) - 1)) + DigitVal(s[Len(s)])

\* the decimal digits of n >= 0
RECURSIVE Decimal(_)
Decimal(n) ==
    IF n < 10 THEN <<DigitSeq[n + 1]>>
    ELSE Decimal(n \div 10) \o <<DigitSeq[(n % 10) + 1]>>

\* the format specification 0<w>d: at least w characters, zero-filled
RECURSIVE ZeroFill(_, _)
ZeroFill(s, w) == IF Len(s) >= w THEN s ELSE ZeroFill(<<"0">> \o s, w)

None == <<>>

\* int(...) of a text that is not a number raises ValueError
ValueError == <<"ValueError">>

IsNumber(s) == Len(s) > 0 /\ \A k \in 1..Len(s) : IsDigit(s[k])

NoDate == <<"None">>

is_valid_year(year_int) == 1800 <= year_int /\ year_int <= 2100

\* re.match(r'^(\d{4})-(\d{2})-(\d{2})$', date_str); no line holds a newline
\* (the file is read line by line), so $ matches at the end only.
ReMatchMonthChecked(date_str) ==
    /\ Len(date_str) = 10
    /\ \A k \in {1, 2, 3, 4, 6, 7, 9, 10} : IsDigit(date_str[k])
    /\ date_str[5] = "-"
    /\ date_str[8] = "-"
    /\ date_str[6] \in {"0", "1"}

ReMatchAnyCharacter(date_str) ==
    /\ Len(date_str) = 10
    /\ date_str[5] = "-"
    /\ date_str[8] = "-"

ReMatch(date_str) ==
    /\ Len(date_str) = 10
    /\ \A k \in {1, 2, 3, 4, 6, 7, 9, 10} : IsDigit(date_str[k])
    /\ date_str[5] = "-"
    /\ date_str[8] = "-"

parse_date(date_str) ==
    IF Len(date_str) = 0 \/ Len(date_str) < 10 THEN None
    ELSE IF ~ReMatch(date_str) THEN None
    ELSE IF ~(IsNumber(SubSeq(date_str, 1, 4)) /\ IsNumber(SubSeq(date_str, 6, 7))
                /\ IsNumber(SubSeq(date_str, 9, 10)))
    THEN ValueError
    ELSE <<ToInt(SubSeq(date_str, 1, 4)),
           ToInt(SubSeq(date_str, 6, 7)),
           ToInt(SubSeq(date_str, 9, 10))>>

format_date_unpadded(year, month, day) ==
    Decimal(year) \o <<"-">> \o Decimal(month) \o <<"-">> \o Decimal(day)

format_date(year, month, day) ==
    ZeroFill(Decimal(year), 4) \o <<"-">> \o ZeroFill(Decimal(month), 2)
        \o <<"-">> \o ZeroFill(Decimal(day), 2)

(***************************************************************************)
(* str.split(',') and ','.join(...)                                        *)
(***************************************************************************)
HasComma(s) == \E k \in 1..Len(s) : s[k] = ","

FirstComma(s) == CHOOSE k \in 1..Len(s) : s[k] = "," /\ \A j \in 1..(k - 1) : s[j] # ","

RECURSIVE Split(_)
Split(s) ==
    IF ~HasComma(s) THEN <<s>>
    ELSE <<SubSeq(s, 1, FirstComma(s) - 1)>>
             \o Split(SubSeq(s, FirstComma(s) + 1, Len(s)))

JoinFirstOnly(parts) == IF Len(parts) = 0 THEN <<>> ELSE parts[1]

RECURSIVE Join(_)
Join(parts) ==
    IF Len(parts) = 0 THEN <<>>
    ELSE IF Len(parts) = 1 THEN parts[1]
    ELSE parts[1] \o <<",">> \o Join(Tail(parts))

(***************************************************************************)
(* process_csv: the records of the data lines.                             *)
(***************************************************************************)
MakeRecord(parts) ==
    [original_date |-> parts[1],
     parsed |-> parse_date(parts[1]),
     value |-> Join(Tail(parts)),
     fixed_date |-> NoDate]

\* len(lines) < 2
TooShortNever(ls) == FALSE

TooShort(ls) == Len(ls) < 2

\* data_lines = lines[1:]
DataLinesAll(ls) == ls

DataLines(ls) == Tail(ls)

RECURSIVE BuildRecordsKeepAll(_)
BuildRecordsKeepAll(ls) ==
    IF Len(ls) = 0 THEN <<>>
    ELSE IF Len(Split(ls[1])) >= 1
         THEN <<MakeRecord(Split(ls[1]))>> \o BuildRecordsKeepAll(Tail(ls))
         ELSE BuildRecordsKeepAll(Tail(ls))

RECURSIVE BuildRecords(_)
BuildRecords(ls) ==
    IF Len(ls) = 0 THEN <<>>
    ELSE IF Len(Split(ls[1])) >= 2
         THEN <<MakeRecord(Split(ls[1]))>> \o BuildRecords(Tail(ls))
         ELSE BuildRecords(Tail(ls))

\* rec['parsed'] and is_valid_year(rec['parsed'][0])
IsValidNarrow(rec) == rec.parsed # None /\ 1800 < rec.parsed[1] /\ rec.parsed[1] <= 2100

IsValidOrFixed(rec) ==
    rec.parsed # None /\ (is_valid_year(rec.parsed[1]) \/ rec.fixed_date # NoDate)

IsValid(rec) == rec.parsed # None /\ is_valid_year(rec.parsed[1])

\* for i, rec in enumerate(records): ... break
FirstValidOrFirst(recs, j) ==
    IF \E k \in j..Len(recs) : IsValid(recs[k])
    THEN CHOOSE k \in j..Len(recs) : IsValid(recs[k]) /\ \A h \in j..(k - 1) : ~IsValid(recs[h])
    ELSE 1

RECURSIVE FirstValidFrom(_, _)
FirstValidFrom(recs, j) ==
    IF j > Len(recs) THEN 0
    ELSE IF IsValid(recs[j]) THEN j
    ELSE FirstValidFrom(recs, j + 1)

RECURSIVE ValidIndicesFrom(_, _)
ValidIndicesFrom(recs, j) ==
    IF j > Len(recs) THEN <<>>
    ELSE IF IsValid(recs[j]) THEN <<j>> \o ValidIndicesFrom(recs, j + 1)
    ELSE ValidIndicesFrom(recs, j + 1)

ValidYears(recs) ==
    [k \in 1..Len(ValidIndicesFrom(recs, 1)) |->
        recs[ValidIndicesFrom(recs, 1)[k]].parsed[1]]

IsAscendingGe(years) ==
    IF Len(years) >= 2 THEN years[Len(years)] >= years[1] ELSE TRUE

IsAscendingLt(years) ==
    IF Len(years) >= 2 THEN years[Len(years)] < years[1] ELSE TRUE

IsAscending(years) ==
    IF Len(years) >= 2 THEN years[Len(years)] > years[1] ELSE TRUE

(***************************************************************************)
(* process_csv: the repair of one row.                                     *)
(***************************************************************************)
\* for j in range(i - 1, -1, -1): ... break   (0: no anchor before)
RECURSIVE ScanBack(_, _)
ScanBack(recs, j) ==
    IF j < 1 THEN 0
    ELSE IF IsValid(recs[j]) THEN j
    ELSE ScanBack(recs, j - 1)

ScanFwdSkipsOne(recs, j) ==
    IF \E h \in (j + 1)..Len(recs) : IsValid(recs[h])
    THEN CHOOSE h \in (j + 1)..Len(recs) :
             IsValid(recs[h]) /\ \A g \in (j + 1)..(h - 1) : ~IsValid(recs[g])
    ELSE 0

\* for j in range(i + 1, len(records)): ... break   (0: no anchor after)
RECURSIVE ScanFwd(_, _)
ScanFwd(recs, j) ==
    IF j > Len(recs) THEN 0
    ELSE IF IsValid(recs[j]) THEN j
    ELSE ScanFwd(recs, j + 1)

\* dist_to_next <= dist_to_prev, where 0 stands for float('inf'): the distance
\* to an anchor that exists is at least 1.
DistLt(dist_to_next, dist_to_prev) ==
    IF dist_to_prev = 0 THEN dist_to_next # 0
    ELSE IF dist_to_next = 0 THEN FALSE
    ELSE dist_to_next < dist_to_prev

DistLe(dist_to_next, dist_to_prev) ==
    IF dist_to_prev = 0 THEN TRUE
    ELSE IF dist_to_next = 0 THEN FALSE
    ELSE dist_to_next <= dist_to_prev

InferYearNextAdds(recs, k, asc) ==
    LET prev_valid_idx == ScanBack(recs, k - 1)
        next_valid_idx == ScanFwd(recs, k + 1)
        dist_to_prev == IF prev_valid_idx # 0 THEN k - prev_valid_idx ELSE 0
        dist_to_next == IF next_valid_idx # 0 THEN next_valid_idx - k ELSE 0
    IN  IF DistLe(dist_to_next, dist_to_prev) /\ next_valid_idx # 0
        THEN IF asc
             THEN {recs[next_valid_idx].parsed[1] + (next_valid_idx - k)}
             ELSE {recs[next_valid_idx].parsed[1] - (next_valid_idx - k)}
        ELSE IF prev_valid_idx # 0
        THEN IF asc
             THEN {recs[prev_valid_idx].parsed[1] + (k - prev_valid_idx)}
             ELSE {recs[prev_valid_idx].parsed[1] - (k - prev_valid_idx)}
        ELSE {}

\* inferred_year of row k: {} is None, {y} is the year y
InferYear(recs, k, asc) ==
    LET prev_valid_idx == ScanBack(recs, k - 1)
        next_valid_idx == ScanFwd(recs, k + 1)
        dist_to_prev == IF prev_valid_idx # 0 THEN k - prev_valid_idx ELSE 0
        dist_to_next == IF next_valid_idx # 0 THEN next_valid_idx - k ELSE 0
    IN  IF DistLe(dist_to_next, dist_to_prev) /\ next_valid_idx # 0
        THEN IF asc
             THEN {recs[next_valid_idx].parsed[1] - (next_valid_idx - k)}
             ELSE {recs[next_valid_idx].parsed[1] + (next_valid_idx - k)}
        ELSE IF prev_valid_idx # 0
        THEN IF asc
             THEN {recs[prev_valid_idx].parsed[1] + (k - prev_valid_idx)}
             ELSE {recs[prev_valid_idx].parsed[1] - (k - prev_valid_idx)}
        ELSE {}

\* if inferred_year and is_valid_year(inferred_year)
CanFixAnyYear(inf) == \E y \in inf : y # 0 /\ 1000 <= y /\ y <= 9999

CanFix(inf) == \E y \in inf : y # 0 /\ is_valid_year(y)

\* the month and the day of the repaired date
MonthDayBoth(parsed) ==
    IF parsed # None
    THEN IF (1 <= parsed[2] /\ parsed[2] <= 12) /\ (1 <= parsed[3] /\ parsed[3] <= 31)
         THEN <<parsed[2], parsed[3]>>
         ELSE <<12, 30>>
    ELSE <<12, 30>>

MonthDaySentinel31(parsed) ==
    IF parsed # None
    THEN <<IF ~(1 <= parsed[2] /\ parsed[2] <= 12) THEN 12 ELSE parsed[2],
           IF ~(1 <= parsed[3] /\ parsed[3] <= 31) THEN 31 ELSE parsed[3]>>
    ELSE <<12, 31>>

MonthDayMonthFrom0(parsed) ==
    IF parsed # None
    THEN <<IF ~(0 <= parsed[2] /\ parsed[2] <= 12) THEN 12 ELSE parsed[2],
           IF ~(1 <= parsed[3] /\ parsed[3] <= 31) THEN 30 ELSE parsed[3]>>
    ELSE <<12, 30>>

MonthDayUnchecked(parsed) ==
    IF parsed # None THEN <<parsed[2], parsed[3]>> ELSE <<12, 30>>

MonthDay(parsed) ==
    IF parsed # None
    THEN <<IF ~(1 <= parsed[2] /\ parsed[2] <= 12) THEN 12 ELSE parsed[2],
           IF ~(1 <= parsed[3] /\ parsed[3] <= 31) THEN 30 ELSE parsed[3]>>
    ELSE <<12, 30>>

FixedDateNoElse(rec, inf) ==
    IF CanFix(inf)
    THEN format_date(CHOOSE y \in inf : TRUE, MonthDay(rec.parsed)[1],
                     MonthDay(rec.parsed)[2])
    ELSE NoDate

\* rec['fixed_date'] of a row that is not valid
FixedDate(rec, inf) ==
    IF CanFix(inf)
    THEN format_date(CHOOSE y \in inf : TRUE, MonthDay(rec.parsed)[1],
                     MonthDay(rec.parsed)[2])
    ELSE rec.original_date

CountAlways(count, inf) == count + 1

\* fixed_count after a row that is not valid
Counted(count, inf) == IF CanFix(inf) THEN count + 1 ELSE count

\* the repair loop has ended: the file is opened for writing after it
ReadyToWriteInLoop(position, k, recs) == position = "loop"

ReadyToWrite(position, k, recs) == position = "loop" /\ k > Len(recs)

OutLineOriginal(rec) == rec.original_date \o <<",">> \o rec.value

\* f"{rec['fixed_date']},{rec['value']}"
OutLine(rec) == rec.fixed_date \o <<",">> \o rec.value

(***************************************************************************)
(* The input files.                                                        *)
(***************************************************************************)
Ymd(y, m, d) == y \o <<"-">> \o m \o <<"-">> \o d

Hdr == <<"d", ",", "v">>

V10 == <<",", "1", "0">>
V11 == <<",", "1", "1">>
V12 == <<",", "1", "2">>
VTwo == <<",", "1", ",", "2">>
VNone == <<",">>

L1800 == Ymd(<<"1", "8", "0", "0">>, <<"0", "1">>, <<"0", "1">>) \o V10
L2100 == Ymd(<<"2", "1", "0", "0">>, <<"0", "6">>, <<"1", "5">>) \o VTwo
L1970 == Ymd(<<"1", "9", "7", "0">>, <<"0", "1">>, <<"0", "1">>) \o V10
L1972 == Ymd(<<"1", "9", "7", "2">>, <<"0", "1">>, <<"0", "1">>) \o V12
L1973 == Ymd(<<"1", "9", "7", "3">>, <<"0", "1">>, <<"0", "2">>) \o V10
L1980 == Ymd(<<"1", "9", "8", "0">>, <<"0", "1">>, <<"0", "1">>) \o V11
LOdd == Ymd(<<"1", "9", "7", "0">>, <<"9", "9">>, <<"9", "9">>) \o V10
L4968 == Ymd(<<"4", "9", "6", "8">>, <<"0", "1">>, <<"0", "3">>) \o V10
L09A0 == Ymd(<<"0", "9", "A", "0">>, <<"0", "1">>, <<"0", "1">>) \o V11
L0967 == Ymd(<<"0", "9", "6", "7">>, <<"0", "0">>, <<"1", "5">>) \o VNone
L3965 == Ymd(<<"3", "9", "6", "5">>, <<"1", "3">>, <<"3", "2">>) \o VTwo
L2966 == Ymd(<<"2", "9", "6", "6">>, <<"0", "8">>, <<"0", "0">>) \o V10
LA967 == Ymd(<<"0", "9", "A", "7">>, <<"0", "0">>, <<"1", "5">>) \o V12
LShort == <<"1", "9", "7", "0", ",", "1">>
LLong == Ymd(<<"1", "9", "7", "0">>, <<"0", "1">>, <<"0", "1", "0">>) \o V10
LNoDash == <<"1", "9", "7", "0", "0", "0", "1", "0", "0", "1">> \o V11
LBlank == <<>>
LBare == Ymd(<<"1", "9", "8", "0">>, <<"0", "2">>, <<"2", "9">>)
LNoDate == <<",", "5">>

SmallLines == {L1800, L2100, LOdd, L4968, L09A0, LBlank, LNoDate}

SeqLines == {L1800, L1970, L2100, L4968}

OddLines == {L0967, L3965, L2966, LA967, LShort, LLong, LNoDash, L09A0, L4968, LBare}

RECURSIVE SeqsUpTo(_, _)
SeqsUpTo(S, n) ==
    IF n = 0 THEN {<<>>}
    ELSE SeqsUpTo(S, n - 1)
             \cup {Append(s, x) : s \in {t \in SeqsUpTo(S, n - 1) : Len(t) = n - 1}, x \in S}

Repeat(x, n) == [k \in 1..n |-> x]

SmallFiles == {<<Hdr>> \o rows : rows \in SeqsUpTo(SmallLines, MaxRows)}

DateHeaderFiles == {<<L1970>> \o rows : rows \in SeqsUpTo(SmallLines, MaxRows - 1)}

SeqFiles == {<<Hdr>> \o rows : rows \in SeqsUpTo(SeqLines, MaxSeq)}

GapFiles ==
    {<<Hdr, a>> \o Repeat(x, n) \o <<b>> :
        a \in {L1970, L1980}, b \in {L1970, L1980}, x \in {L4968, L09A0}, n \in 0..MaxGap}

PairFiles ==
    {<<Hdr, x>> : x \in OddLines}
        \cup {<<Hdr, L1970, x>> : x \in OddLines} \cup {<<Hdr, x, L1980>> : x \in OddLines}

\* an anchor line of year y
YearLine(y) == Ymd(ZeroFill(Decimal(y), 4), <<"0", "1">>, <<"0", "1">>) \o V10

\* rows of consecutive years from 1970 on, some of them corrupted
StepFiles ==
    UNION {{<<Hdr>> \o [j \in 1..n |-> IF j \in S THEN x ELSE YearLine(1970 + j - 1)] :
                S \in SUBSET (1..n), x \in {L4968, L09A0}} : n \in 1..MaxStep}

ScenarioFiles == {<<Hdr, L1970, L09A0, L1972>>, <<Hdr, L1970, L4968, L1973>>}

InputFiles ==
    {<<>>} \cup SmallFiles \cup DateHeaderFiles \cup SeqFiles \cup GapFiles
        \cup PairFiles \cup ScenarioFiles \cup StepFiles

(***************************************************************************)
(* The state machine.                                                      *)
(***************************************************************************)
Init ==
    /\ file \in InputFiles
    /\ pc = "read"
    /\ run = 1
    /\ lines = <<>>
    /\ header = <<>>
    /\ data_lines = <<>>
    /\ records = <<>>
    /\ first_valid_idx = 0
    /\ valid_years = <<>>
    /\ valid_indices = <<>>
    /\ ascending = TRUE
    /\ i = 1
    /\ inferred = <<>>
    /\ fixed_count = 0
    /\ ret = -1
    /\ wrote = FALSE
    /\ before = file
    /\ log = <<>>
    /\ tree = <<>>
    /\ main_pc = "idle"
    /\ section = 1
    /\ csv_file = 1
    /\ total_fixed = 0
    /\ files_fixed = 0
    /\ section_fixed = 0
    /\ processed = {}
    /\ dates = <<>>
    /\ freq_pc = "idle"
    /\ frequency = ""
    /\ base_dir = <<>>
    /\ org_pc = "idle"
    /\ org_section = 1
    /\ org_chart = 1
    /\ org_file = 1
    /\ output = {}
    /\ results = <<>>

\* lines 40-48: read all lines; fewer than 2 lines returns 0
ReadLines ==
    /\ pc = "read"
    /\ lines' = file
    /\ IF TooShort(file)
       THEN /\ ret' = 0
            /\ pc' = "done"
            /\ UNCHANGED <<header, data_lines>>
       ELSE IF Len(file) = 0
       THEN \* lines[0] of an empty list raises IndexError
            /\ pc' = "raised"
            /\ UNCHANGED <<header, data_lines, ret>>
       ELSE /\ header' = file[1]
            /\ data_lines' = DataLines(file)
            /\ pc' = "parse"
            /\ UNCHANGED ret
    /\ UNCHANGED <<file, run, records, first_valid_idx, valid_years, valid_indices,
                   ascending, i, inferred, fixed_count, wrote, before, log>>
    /\ UNCHANGED <<mainVars, freqVars, orgVars>>

\* lines 50-63: parse all dates and values
ParseRecords ==
    /\ pc = "parse"
    /\ IF \E k \in 1..Len(BuildRecords(data_lines)) :
             BuildRecords(data_lines)[k].parsed = ValueError
       THEN \* int(match.group(n)) raised: the call ends with the exception
            /\ pc' = "raised"
            /\ UNCHANGED records
       ELSE /\ records' = BuildRecords(data_lines)
            /\ pc' = "first"
    /\ UNCHANGED <<file, run, lines, header, data_lines, first_valid_idx, valid_years,
                   valid_indices, ascending, i, inferred, fixed_count, ret, wrote,
                   before, log>>
    /\ UNCHANGED <<mainVars, freqVars, orgVars>>

\* lines 65-76: the first valid row; none returns 0
FindFirstValid ==
    /\ pc = "first"
    /\ first_valid_idx' = FirstValidFrom(records, 1)
    /\ IF FirstValidFrom(records, 1) = 0
       THEN ret' = 0 /\ pc' = "done"
       ELSE pc' = "direction" /\ UNCHANGED ret
    /\ UNCHANGED <<file, run, lines, header, data_lines, records, valid_years,
                   valid_indices, ascending, i, inferred, fixed_count, wrote, before,
                   log>>
    /\ UNCHANGED <<mainVars, freqVars, orgVars>>

\* lines 78-90: the valid rows and the direction of the sequence
FindDirection ==
    /\ pc = "direction"
    /\ valid_indices' = ValidIndicesFrom(records, 1)
    /\ valid_years' = ValidYears(records)
    /\ ascending' = IsAscending(ValidYears(records))
    /\ i' = 1
    /\ pc' = "loop"
    /\ UNCHANGED <<file, run, lines, header, data_lines, records, first_valid_idx,
                   inferred, fixed_count, ret, wrote, before, log>>
    /\ UNCHANGED <<mainVars, freqVars, orgVars>>

\* lines 96-155: one iteration of the repair loop
RepairRow ==
    /\ pc = "loop"
    /\ i <= Len(records)
    /\ IF IsValid(records[i])
       THEN /\ records' = [records EXCEPT ![i].fixed_date = records[i].original_date]
            /\ inferred' = Append(inferred, {})
            /\ UNCHANGED fixed_count
       ELSE /\ records' = [records EXCEPT
                   ![i].fixed_date = FixedDate(records[i], InferYear(records, i, ascending))]
            /\ inferred' = Append(inferred, InferYear(records, i, ascending))
            /\ fixed_count' = Counted(fixed_count, InferYear(records, i, ascending))
    /\ i' = i + 1
    /\ UNCHANGED <<file, pc, run, lines, header, data_lines, first_valid_idx,
                   valid_years, valid_indices, ascending, ret, wrote, before, log>>
    /\ UNCHANGED <<mainVars, freqVars, orgVars>>

\* lines 157-163: write back and return fixed_count
WriteBack ==
    /\ ReadyToWrite(pc, i, records)
    /\ wrote' = TRUE
    /\ file' = <<header>> \o [k \in 1..Len(records) |-> OutLine(records[k])]
    /\ ret' = fixed_count
    /\ pc' = "done"
    /\ UNCHANGED <<run, lines, header, data_lines, records, first_valid_idx,
                   valid_years, valid_indices, ascending, i, inferred, fixed_count,
                   before, log>>
    /\ UNCHANGED <<mainVars, freqVars, orgVars>>

\* the rows of a finished call that were left verbatim though they are not valid
LeftVerbatim ==
    Cardinality({k \in 1..Len(inferred) : ~IsValid(records[k]) /\ ~CanFix(inferred[k])})

\* the rows of a file that process_csv does not classify as valid
CorruptedCount(f) ==
    IF TooShort(f) THEN 0
    ELSE LET recs == BuildRecords(DataLines(f))
         IN  Cardinality({k \in 1..Len(recs) : ~IsValid(recs[k])})

\* process_csv is called again on the same path (a later run of the script)
NextRun ==
    /\ pc = "done"
    /\ run < MaxRuns
    /\ run' = run + 1
    /\ log' = Append(log, [ret |-> ret, wrote |-> wrote, verbatim |-> LeftVerbatim,
                            corrupted |-> CorruptedCount(before)])
    /\ before' = file
    /\ pc' = "read"
    /\ lines' = <<>>
    /\ header' = <<>>
    /\ data_lines' = <<>>
    /\ records' = <<>>
    /\ first_valid_idx' = 0
    /\ valid_years' = <<>>
    /\ valid_indices' = <<>>
    /\ ascending' = TRUE
    /\ i' = 1
    /\ inferred' = <<>>
    /\ fixed_count' = 0
    /\ ret' = -1
    /\ wrote' = FALSE
    /\ UNCHANGED file
    /\ UNCHANGED <<mainVars, freqVars, orgVars>>

Next ==
    \/ ReadLines
    \/ ParseRecords
    \/ FindFirstValid
    \/ FindDirection
    \/ RepairRow
    \/ WriteBack
    \/ NextRun

Spec == Init /\ [][Next]_vars

(***************************************************************************)
(* process_csv as one step: the content it leaves, the value it returns,   *)
(* and whether it opens the file for writing.                              *)
(***************************************************************************)
RECURSIVE CountFixed(_, _, _)
CountFixed(recs, k, asc) ==
    IF k < 1 THEN 0
    ELSE IF IsValid(recs[k]) THEN CountFixed(recs, k - 1, asc)
    ELSE Counted(CountFixed(recs, k - 1, asc), InferYear(recs, k, asc))

Repair(recs, asc) ==
    [k \in 1..Len(recs) |->
        [recs[k] EXCEPT !.fixed_date =
            IF IsValid(recs[k]) THEN recs[k].original_date
            ELSE FixedDate(recs[k], InferYear(recs, k, asc))]]

ProcessCsv(f) ==
    IF TooShort(f) THEN [file |-> f, ret |-> 0, writes |-> FALSE]
    ELSE LET recs == BuildRecords(DataLines(f))
         IN  IF FirstValidFrom(recs, 1) = 0
             THEN [file |-> f, ret |-> 0, writes |-> FALSE]
             ELSE LET asc == IsAscending(ValidYears(recs))
                  IN  [file |-> <<f[1]>> \o [k \in 1..Len(recs) |->
                                                OutLine(Repair(recs, asc)[k])],
                       ret |-> CountFixed(recs, Len(recs), asc),
                       writes |-> TRUE]

\* the steps of process_csv end as ProcessCsv says
StepsAgreeWithProcessCsv ==
    pc = "done" =>
        /\ file = ProcessCsv(before).file
        /\ ret = ProcessCsv(before).ret
        /\ wrote = ProcessCsv(before).writes

(***************************************************************************)
(* main: the loop over the sections of BASE_DIR and over their CSV files.  *)
(* An entry of BASE_DIR is a directory or not; an entry of a section is a  *)
(* .csv file or not, holds a content, and can be read and written ("ok"),  *)
(* not opened at all ("unreadable") or read only ("readonly").             *)
(***************************************************************************)
CsvEntries ==
    {[csv |-> TRUE, content |-> <<Hdr, L1970, L4968>>, mode |-> "ok"],
     [csv |-> TRUE, content |-> <<Hdr, L1970, L1972>>, mode |-> "ok"],
     [csv |-> TRUE, content |-> <<Hdr>>, mode |-> "readonly"],
     [csv |-> TRUE, content |-> <<Hdr, L1970, L4968>>, mode |-> "unreadable"],
     [csv |-> TRUE, content |-> <<Hdr, L1970, L4968>>, mode |-> "readonly"]}

OtherEntries == {[csv |-> FALSE, content |-> <<Hdr, L4968>>, mode |-> "ok"]}

Sections ==
    {[dir |-> FALSE, entries |-> <<>>]}
        \cup {[dir |-> TRUE, entries |-> es] :
                 es \in SeqsUpTo(CsvEntries \cup OtherEntries, MaxFiles)}

Trees == SeqsUpTo(Sections, MaxSections)

\* open(filepath, 'r') or open(filepath, 'w') fails in process_csv
Raises(entry) ==
    \/ entry.mode = "unreadable"
    \/ entry.mode = "readonly" /\ ProcessCsv(entry.content).writes

MainInit ==
    /\ tree \in Trees
    /\ main_pc = "sections"
    /\ section = 1
    /\ csv_file = 1
    /\ total_fixed = 0
    /\ files_fixed = 0
    /\ section_fixed = 0
    /\ processed = {}
    /\ file = <<>>
    /\ pc = "idle"
    /\ run = 1
    /\ lines = <<>>
    /\ header = <<>>
    /\ data_lines = <<>>
    /\ records = <<>>
    /\ first_valid_idx = 0
    /\ valid_years = <<>>
    /\ valid_indices = <<>>
    /\ ascending = TRUE
    /\ i = 1
    /\ inferred = <<>>
    /\ fixed_count = 0
    /\ ret = -1
    /\ wrote = FALSE
    /\ before = <<>>
    /\ log = <<>>
    /\ dates = <<>>
    /\ freq_pc = "idle"
    /\ frequency = ""
    /\ base_dir = <<>>
    /\ org_pc = "idle"
    /\ org_section = 1
    /\ org_chart = 1
    /\ org_file = 1
    /\ output = {}
    /\ results = <<>>

\* lines 173-176: an entry of BASE_DIR that is not a directory is skipped
SkipNonDirectory ==
    /\ main_pc = "sections"
    /\ section <= Len(tree)
    /\ ~tree[section].dir
    /\ section' = section + 1
    /\ UNCHANGED <<tree, main_pc, csv_file, total_fixed, files_fixed, section_fixed,
                   processed>>
    /\ UNCHANGED <<procVars, freqVars, orgVars>>

\* lines 178-181: a section is entered
EnterSection ==
    /\ main_pc = "sections"
    /\ section <= Len(tree)
    /\ tree[section].dir
    /\ section_fixed' = 0
    /\ csv_file' = 1
    /\ main_pc' = "files"
    /\ UNCHANGED <<tree, section, total_fixed, files_fixed, processed>>
    /\ UNCHANGED <<procVars, freqVars, orgVars>>

\* lines 182-183: an entry of the section that is no .csv file is skipped
SkipNonCsv ==
    /\ main_pc = "files"
    /\ csv_file <= Len(tree[section].entries)
    /\ ~tree[section].entries[csv_file].csv
    /\ csv_file' = csv_file + 1
    /\ UNCHANGED <<tree, main_pc, section, total_fixed, files_fixed, section_fixed,
                   processed>>
    /\ UNCHANGED <<procVars, freqVars, orgVars>>

\* lines 185-192: process_csv returns and its count is added
CallProcessCsv ==
    /\ main_pc = "files"
    /\ csv_file <= Len(tree[section].entries)
    /\ tree[section].entries[csv_file].csv
    /\ ~Raises(tree[section].entries[csv_file])
    /\ LET fixed == ProcessCsv(tree[section].entries[csv_file].content)
       IN  /\ tree' = [tree EXCEPT ![section].entries[csv_file].content = fixed.file]
           /\ IF fixed.ret > 0
              THEN /\ total_fixed' = total_fixed + fixed.ret
                   /\ files_fixed' = files_fixed + 1
                   /\ section_fixed' = section_fixed + fixed.ret
              ELSE UNCHANGED <<total_fixed, files_fixed, section_fixed>>
    /\ processed' = processed \cup {<<section, csv_file>>}
    /\ csv_file' = csv_file + 1
    /\ UNCHANGED <<main_pc, section>>
    /\ UNCHANGED <<procVars, freqVars, orgVars>>

\* line 186: process_csv raises OSError; main has no handler, so main ends with it
ProcessCsvRaises ==
    /\ main_pc = "files"
    /\ csv_file <= Len(tree[section].entries)
    /\ tree[section].entries[csv_file].csv
    /\ Raises(tree[section].entries[csv_file])
    /\ main_pc' = "raised"
    /\ UNCHANGED <<tree, section, csv_file, total_fixed, files_fixed, section_fixed,
                   processed>>
    /\ UNCHANGED <<procVars, freqVars, orgVars>>

\* lines 194-195: the section ends
EndSection ==
    /\ main_pc = "files"
    /\ csv_file > Len(tree[section].entries)
    /\ section' = section + 1
    /\ main_pc' = "sections"
    /\ UNCHANGED <<tree, csv_file, total_fixed, files_fixed, section_fixed, processed>>
    /\ UNCHANGED <<procVars, freqVars, orgVars>>

\* lines 197-199: the totals are printed
Complete ==
    /\ main_pc = "sections"
    /\ section > Len(tree)
    /\ main_pc' = "complete"
    /\ UNCHANGED <<tree, section, csv_file, total_fixed, files_fixed, section_fixed,
                   processed>>
    /\ UNCHANGED <<procVars, freqVars, orgVars>>

MainNext ==
    \/ SkipNonDirectory
    \/ EnterSection
    \/ SkipNonCsv
    \/ CallProcessCsv
    \/ ProcessCsvRaises
    \/ EndSection
    \/ Complete

SpecMain == MainInit /\ [][MainNext]_vars

(***************************************************************************)
(* reorganize_csvs.py: detect_frequency.  A date is the text of the first  *)
(* column of a row; datetime.strptime(d, "%Y-%m-%d") is computed on its    *)
(* characters and a parsed date is its proleptic Gregorian ordinal, so     *)
(* that the difference of two parsed dates is their distance in days.      *)
(***************************************************************************)
HasDash(s) == \E k \in 1..Len(s) : s[k] = "-"

FirstDash(s) == CHOOSE k \in 1..Len(s) : s[k] = "-" /\ \A j \in 1..(k - 1) : s[j] # "-"

RECURSIVE SplitDash(_)
SplitDash(s) ==
    IF ~HasDash(s) THEN <<s>>
    ELSE <<SubSeq(s, 1, FirstDash(s) - 1)>>
             \o SplitDash(SubSeq(s, FirstDash(s) + 1, Len(s)))

\* %Y: \d\d\d\d
YearText(s) == Len(s) = 4 /\ IsNumber(s)

\* %m: 1[0-2]|0[1-9]|[1-9]
MonthText(s) ==
    /\ Len(s) \in {1, 2}
    /\ IsNumber(s)
    /\ ToInt(s) \in 1..12

\* %d: 3[01]|[12]\d|0[1-9]|[1-9]| [1-9]
DayText(s) ==
    \/ Len(s) \in {1, 2} /\ IsNumber(s) /\ ToInt(s) \in 1..31
    \/ Len(s) = 2 /\ s[1] = " " /\ IsDigit(s[2]) /\ s[2] # "0"

DayValue(s) == IF s[1] = " " THEN ToInt(Tail(s)) ELSE ToInt(s)

IsLeap(y) == y % 4 = 0 /\ (y % 100 # 0 \/ y % 400 = 0)

DaysInMonth(y, mo) ==
    IF mo = 2 THEN (IF IsLeap(y) THEN 29 ELSE 28)
    ELSE IF mo \in {4, 6, 9, 11} THEN 30
    ELSE 31

RECURSIVE DaysBeforeMonth(_, _)
DaysBeforeMonth(y, mo) ==
    IF mo <= 1 THEN 0 ELSE DaysBeforeMonth(y, mo - 1) + DaysInMonth(y, mo - 1)

\* date.toordinal(): the days from 0001-01-01, which is day 1
Ordinal(y, mo, d) ==
    365 * (y - 1) + ((y - 1) \div 4) - ((y - 1) \div 100) + ((y - 1) \div 400)
        + DaysBeforeMonth(y, mo) + d

\* datetime.strptime(d, "%Y-%m-%d"): the ordinal of the date, or None when
\* it raises ValueError (the text does not match, or names no calendar day)
Strptime(d) ==
    LET parts == SplitDash(d)
    IN  IF Len(parts) # 3 THEN None
        ELSE IF ~(YearText(parts[1]) /\ MonthText(parts[2]) /\ DayText(parts[3]))
        THEN None
        ELSE IF ToInt(parts[1]) < 1 THEN None
        ELSE IF DayValue(parts[3]) > DaysInMonth(ToInt(parts[1]), ToInt(parts[2]))
        THEN None
        ELSE <<Ordinal(ToInt(parts[1]), ToInt(parts[2]), DayValue(parts[3]))>>

\* dates[:100]
CheckFirst == 100

FirstDates(ds) == SubSeq(ds, 1, IF Len(ds) < CheckFirst THEN Len(ds) ELSE CheckFirst)

\* lines 174-180: the dates of the list that parse, in order
RECURSIVE ParseAll(_)
ParseAll(ds) ==
    IF Len(ds) = 0 THEN <<>>
    ELSE Strptime(ds[1]) \o ParseAll(Tail(ds))

\* lines 186-190: the positive differences of consecutive parsed dates
RECURSIVE Diffs(_, _)
Diffs(parsed, k) ==
    IF k > Len(parsed) THEN <<>>
    ELSE IF parsed[k] - parsed[k - 1] > 0
    THEN <<parsed[k] - parsed[k - 1]>> \o Diffs(parsed, k + 1)
    ELSE Diffs(parsed, k + 1)

RECURSIVE Sum(_)
Sum(s) == IF Len(s) = 0 THEN 0 ELSE s[1] + Sum(Tail(s))

\* lines 195-204: avg_diff = total / count against the thresholds; the
\* differences are integers, so total / count <= t exactly when total <= t * count
LabelBelow(total, count) ==
    IF total < 7 * count THEN "daily"
    ELSE IF total < 45 * count THEN "monthly"
    ELSE IF total < 120 * count THEN "quarterly"
    ELSE "yearly"

Label(total, count) ==
    IF total <= 7 * count THEN "daily"
    ELSE IF total <= 45 * count THEN "monthly"
    ELSE IF total <= 120 * count THEN "quarterly"
    ELSE "yearly"

detect_frequency(ds) ==
    IF Len(ds) < 2 THEN "unknown"
    ELSE LET parsed == ParseAll(FirstDates(ds))
         IN  IF Len(parsed) < 2 THEN "unknown"
             ELSE LET diffs == Diffs(parsed, 2)
                  IN  IF Len(diffs) = 0 THEN "unknown"
                      ELSE Label(Sum(diffs), Len(diffs))

\* the lists of dates detect_frequency is called on
RECURSIVE DateAfter(_, _, _)
DateAfter(y, mo, n) ==
    IF n < DaysInMonth(y, mo) THEN <<y, mo, n + 1>>
    ELSE DateAfter(IF mo = 12 THEN y + 1 ELSE y, IF mo = 12 THEN 1 ELSE mo + 1,
                   n - DaysInMonth(y, mo))

\* the date n days after 2020-01-01, as YYYY-MM-DD
DateAt(n) == format_date(DateAfter(2020, 1, n)[1], DateAfter(2020, 1, n)[2],
                         DateAfter(2020, 1, n)[3])

Date4968 == Ymd(<<"4", "9", "6", "8">>, <<"0", "1">>, <<"0", "3">>)

DayOffsets == {0, 7, 15, 60, 180, 301, 700}

\* 2020-1-5, 2020-02-30, 0000-01-01, 2020/01/01 and 4968-01-03
OddDates ==
    {<<"2", "0", "2", "0", "-", "1", "-", "5">>,
     Ymd(<<"2", "0", "2", "0">>, <<"0", "2">>, <<"3", "0">>),
     Ymd(<<"0", "0", "0", "0">>, <<"0", "1">>, <<"0", "1">>),
     <<"2", "0", "2", "0", "/", "0", "1", "/", "0", "1">>,
     Date4968}

DateChoices == {DateAt(n) : n \in DayOffsets} \cup OddDates

\* lists longer than dates[:100]: equal dates, then a day later, then 700 days later
LongLists ==
    {Repeat(DateAt(0), n) \o <<DateAt(1), DateAt(700)>> :
        n \in (CheckFirst - 3)..(CheckFirst + 1)}

DateLists == SeqsUpTo(DateChoices, MaxDates) \cup LongLists

ProcIdle ==
    /\ file = <<>>
    /\ pc = "idle"
    /\ run = 1
    /\ lines = <<>>
    /\ header = <<>>
    /\ data_lines = <<>>
    /\ records = <<>>
    /\ first_valid_idx = 0
    /\ valid_years = <<>>
    /\ valid_indices = <<>>
    /\ ascending = TRUE
    /\ i = 1
    /\ inferred = <<>>
    /\ fixed_count = 0
    /\ ret = -1
    /\ wrote = FALSE
    /\ before = <<>>
    /\ log = <<>>

MainIdle ==
    /\ tree = <<>>
    /\ main_pc = "idle"
    /\ section = 1
    /\ csv_file = 1
    /\ total_fixed = 0
    /\ files_fixed = 0
    /\ section_fixed = 0
    /\ processed = {}

OrgIdle ==
    /\ base_dir = <<>>
    /\ org_pc = "idle"
    /\ org_section = 1
    /\ org_chart = 1
    /\ org_file = 1
    /\ output = {}
    /\ results = <<>>

FreqInit ==
    /\ dates \in DateLists
    /\ freq_pc = "call"
    /\ frequency = ""
    /\ ProcIdle
    /\ MainIdle
    /\ OrgIdle

\* lines 168-204: detect_frequency(dates) returns its label
DetectFrequency ==
    /\ freq_pc = "call"
    /\ frequency' = detect_frequency(dates)
    /\ freq_pc' = "returned"
    /\ UNCHANGED dates
    /\ UNCHANGED <<procVars, mainVars, orgVars>>

FreqNext == DetectFrequency

SpecFreq == FreqInit /\ [][FreqNext]_vars

(***************************************************************************)
(* reorganize_csvs.py: detect_timespan and process_files.  A name (of a    *)
(* chart folder, of an item, of a graph type) is the sequence of its words *)
(* and stands for the words joined by '_', so that the f-string of the new *)
(* file name is the concatenation of the words of its five parts.  A CSV   *)
(* file is the list of the first columns of its rows after the header.     *)
(***************************************************************************)
\* reversed(...)
Reversed(s) == [k \in 1..Len(s) |-> s[Len(s) + 1 - k]]

\* the first date of the list that is at least 10 long and whose first 10
\* characters parse: its ordinal, or None
RECURSIVE FirstSpanDate(_)
FirstSpanDate(ds) ==
    IF Len(ds) = 0 THEN None
    ELSE IF Len(ds[1]) >= 10 /\ Strptime(SubSeq(ds[1], 1, 10)) # None
    THEN Strptime(SubSeq(ds[1], 1, 10))
    ELSE FirstSpanDate(Tail(ds))

\* years = abs(days) / 365.25 against the thresholds: years <= t exactly
\* when 4 * abs(days) <= 1461 * t
SpanLabel(days) ==
    LET span == 4 * (IF days < 0 THEN 0 - days ELSE days)
    IN  IF span <= 1461 * 5 THEN <<"5y">>
        ELSE IF span <= 1461 * 12 THEN <<"10y">>
        ELSE IF span <= 1461 * 25 THEN <<"20y">>
        ELSE IF span <= 1461 * 40 THEN <<"30y">>
        ELSE IF span <= 1461 * 55 THEN <<"50y">>
        ELSE IF span <= 1461 * 75 THEN <<"70y">>
        ELSE IF span <= 1461 * 120 THEN <<"100y">>
        ELSE IF span <= 1461 * 150 THEN <<"120y">>
        ELSE <<"100y", "plus">>

detect_timespan(ds) ==
    IF Len(ds) < 2 THEN <<"unknown">>
    ELSE LET first_date == FirstSpanDate(SubSeq(ds, 1, IF Len(ds) < 5 THEN Len(ds) ELSE 5))
             last_date == FirstSpanDate(Reversed(SubSeq(ds, IF Len(ds) < 5 THEN 1
                                                           ELSE Len(ds) - 4, Len(ds))))
         IN  IF first_date = None \/ last_date = None THEN <<"unknown">>
             ELSE SpanLabel(last_date[1] - first_date[1])

\* CHART_MAPPINGS.get(chart_name): (item_name, unit) of two of its keys
CHART_MAPPINGS(chart_name) ==
    IF chart_name = <<"dow", "jones", "100", "year">> THEN <<<<"dow", "jones">>, "index">>
    ELSE IF chart_name = <<"dow", "jones", "by", "year">>
    THEN <<<<"dow", "jones">>, "index">>
    ELSE None

ItemName(chart_name) ==
    IF CHART_MAPPINGS(chart_name) = None THEN chart_name ELSE CHART_MAPPINGS(chart_name)[1]

Unit(chart_name) ==
    IF CHART_MAPPINGS(chart_name) = None THEN "unknown" ELSE CHART_MAPPINGS(chart_name)[2]

\* GRAPH_TYPE_MAP.get(graph_type, graph_type), for two of its keys
GRAPH_TYPE_MAP(graph_type) ==
    IF graph_type = <<"main", "data">> THEN <<"main">>
    ELSE IF graph_type = <<"series", "02">> THEN <<"series2">>
    ELSE graph_type

\* f"{item_name}_{type_suffix}_{unit}_{frequency}_{timespan}.csv"
NewName(chart_name, graph_type, ds) ==
    ItemName(chart_name) \o GRAPH_TYPE_MAP(graph_type)
        \o <<Unit(chart_name), detect_frequency(ds)>> \o detect_timespan(ds)

\* the entries of a chart folder, sorted by name: main.csv, main_data.csv
\* and notes.txt, each there or not
DailyDates == <<DateAt(0), DateAt(7)>>

YearlyDates == <<DateAt(0), DateAt(700)>>

MainCsv == {<<>>} \cup {<<[stem |-> <<"main">>, csv |-> TRUE, dates |-> DailyDates]>>}

MainDataCsv ==
    {<<>>} \cup {<<[stem |-> <<"main", "data">>, csv |-> TRUE, dates |-> ds]>> :
                    ds \in {DailyDates, YearlyDates}}

NotesTxt == {<<>>} \cup {<<[stem |-> <<"notes">>, csv |-> FALSE, dates |-> <<>>]>>}

ChartFiles == {a \o b \o c : a \in MainCsv, b \in MainDataCsv, c \in NotesTxt}

\* the entries of a section, sorted by name: dow_jones_100_year,
\* dow_jones_by_year and gold (folders), and notes.txt (a file)
ChartFolder(chart_name) ==
    {<<>>} \cup {<<[name |-> chart_name, dir |-> TRUE, files |-> fs]>> : fs \in ChartFiles}

NotesEntry == {<<>>} \cup {<<[name |-> <<"notes">>, dir |-> FALSE, files |-> <<>>]>>}

SectionCharts ==
    {a \o b \o c \o d : a \in ChartFolder(<<"dow", "jones", "100", "year">>),
                        b \in ChartFolder(<<"dow", "jones", "by", "year">>),
                        c \in ChartFolder(<<"gold">>),
                        d \in NotesEntry}

BaseDirs ==
    {<<>>, <<[dir |-> FALSE, charts |-> <<>>]>>}
        \cup {<<[dir |-> TRUE, charts |-> cs]>> : cs \in SectionCharts}

OrgInit ==
    /\ base_dir \in BaseDirs
    /\ org_pc = "sections"
    /\ org_section = 1
    /\ org_chart = 1
    /\ org_file = 1
    /\ output = {}
    /\ results = [s \in 1..Len(base_dir) |-> <<>>]
    /\ dates = <<>>
    /\ freq_pc = "idle"
    /\ frequency = ""
    /\ ProcIdle
    /\ MainIdle

\* lines 276-279: an entry of BASE_DIR that is not a directory is skipped
OrgSkipNonDirectory ==
    /\ org_pc = "sections"
    /\ org_section <= Len(base_dir)
    /\ ~base_dir[org_section].dir
    /\ org_section' = org_section + 1
    /\ UNCHANGED <<base_dir, org_pc, org_chart, org_file, output, results>>
    /\ UNCHANGED <<procVars, mainVars, freqVars>>

\* lines 281-286: the output section is made and the section is entered
OrgEnterSection ==
    /\ org_pc = "sections"
    /\ org_section <= Len(base_dir)
    /\ base_dir[org_section].dir
    /\ org_chart' = 1
    /\ org_pc' = "charts"
    /\ UNCHANGED <<base_dir, org_section, org_file, output, results>>
    /\ UNCHANGED <<procVars, mainVars, freqVars>>

\* lines 288-291: an entry of the section that is not a directory is skipped
OrgSkipNonChart ==
    /\ org_pc = "charts"
    /\ org_chart <= Len(base_dir[org_section].charts)
    /\ ~base_dir[org_section].charts[org_chart].dir
    /\ org_chart' = org_chart + 1
    /\ UNCHANGED <<base_dir, org_pc, org_section, org_file, output, results>>
    /\ UNCHANGED <<procVars, mainVars, freqVars>>

\* lines 293-300: the mapping of the chart is looked up and the folder is entered
OrgEnterChart ==
    /\ org_pc = "charts"
    /\ org_chart <= Len(base_dir[org_section].charts)
    /\ base_dir[org_section].charts[org_chart].dir
    /\ org_file' = 1
    /\ org_pc' = "files"
    /\ UNCHANGED <<base_dir, org_section, org_chart, output, results>>
    /\ UNCHANGED <<procVars, mainVars, freqVars>>

\* lines 302-304: an entry of the chart folder that is no .csv file is skipped
OrgSkipNonCsv ==
    /\ org_pc = "files"
    /\ org_file <= Len(base_dir[org_section].charts[org_chart].files)
    /\ ~base_dir[org_section].charts[org_chart].files[org_file].csv
    /\ org_file' = org_file + 1
    /\ UNCHANGED <<base_dir, org_pc, org_section, org_chart, output, results>>
    /\ UNCHANGED <<procVars, mainVars, freqVars>>

\* lines 306-326: the file is copied to its new name, replacing what the
\* output section holds under that name, and the name is appended to results
CopyFile ==
    /\ org_pc = "files"
    /\ org_file <= Len(base_dir[org_section].charts[org_chart].files)
    /\ base_dir[org_section].charts[org_chart].files[org_file].csv
    /\ LET folder == base_dir[org_section].charts[org_chart]
           new_name == NewName(folder.name, folder.files[org_file].stem,
                               folder.files[org_file].dates)
       IN  /\ output' = {o \in output : ~(o.section = org_section /\ o.name = new_name)}
                            \cup {[section |-> org_section, name |-> new_name,
                                   source |-> <<org_chart, org_file>>]}
           /\ results' = [results EXCEPT ![org_section] = Append(@, new_name)]
    /\ org_file' = org_file + 1
    /\ UNCHANGED <<base_dir, org_pc, org_section, org_chart>>
    /\ UNCHANGED <<procVars, mainVars, freqVars>>

\* line 302: the loop over the chart folder ends
OrgEndChart ==
    /\ org_pc = "files"
    /\ org_file > Len(base_dir[org_section].charts[org_chart].files)
    /\ org_chart' = org_chart + 1
    /\ org_pc' = "charts"
    /\ UNCHANGED <<base_dir, org_section, org_file, output, results>>
    /\ UNCHANGED <<procVars, mainVars, freqVars>>

\* line 288: the loop over the section ends
OrgEndSection ==
    /\ org_pc = "charts"
    /\ org_chart > Len(base_dir[org_section].charts)
    /\ org_section' = org_section + 1
    /\ org_pc' = "sections"
    /\ UNCHANGED <<base_dir, org_chart, org_file, output, results>>
    /\ UNCHANGED <<procVars, mainVars, freqVars>>

\* line 328: return results
OrgReturn ==
    /\ org_pc = "sections"
    /\ org_section > Len(base_dir)
    /\ org_pc' = "returned"
    /\ UNCHANGED <<base_dir, org_section, org_chart, org_file, output, results>>
    /\ UNCHANGED <<procVars, mainVars, freqVars>>

OrgNext ==
    \/ OrgSkipNonDirectory
    \/ OrgEnterSection
    \/ OrgSkipNonChart
    \/ OrgEnterChart
    \/ OrgSkipNonCsv
    \/ CopyFile
    \/ OrgEndChart
    \/ OrgEndSection
    \/ OrgReturn

SpecOrganize == OrgInit /\ [][OrgNext]_vars

(***************************************************************************)
(* What the properties below read off a file: the date field of a line     *)
(* (the text before its first comma), its payload (the text after it), and *)
(* the input line each written row comes from.  process_csv keeps the data *)
(* lines that hold a comma, in order, so the k-th written row comes from   *)
(* the k-th input data line that holds a comma.                            *)
(***************************************************************************)
DateField(line) == IF HasComma(line) THEN SubSeq(line, 1, FirstComma(line) - 1) ELSE line

Payload(line) == SubSeq(line, FirstComma(line) + 1, Len(line))

RECURSIVE CommaLinesFrom(_, _)
CommaLinesFrom(f, j) ==
    IF j > Len(f) THEN <<>>
    ELSE IF HasComma(f[j]) THEN <<j>> \o CommaLinesFrom(f, j + 1)
    ELSE CommaLinesFrom(f, j + 1)

\* the input line of the k-th written data row
SourceLine(k) == before[CommaLinesFrom(before, 2)[k]]

\* the k-th written data row
WrittenLine(k) == file[k + 1]

WrittenRows == 1..(Len(file) - 1)

Rewritten == pc = "done" /\ wrote

\* 4 digits, '-', 2 digits, '-', 2 digits
DateShaped(d) == ReMatch(d)

YearOf(d) == ToInt(SubSeq(d, 1, 4))
MonthOf(d) == ToInt(SubSeq(d, 6, 7))
DayOf(d) == ToInt(SubSeq(d, 9, 10))

AnchorText(d) == DateShaped(d) /\ 1800 <= YearOf(d) /\ YearOf(d) <= 2100

\* the k-th written row was a corrupted row and its date was replaced
Repaired(k) ==
    /\ ~AnchorText(DateField(SourceLine(k)))
    /\ DateField(WrittenLine(k)) # DateField(SourceLine(k))

DateFields(f) == [k \in 1..Len(f) |-> DateField(f[k])]

\* the nearest anchor before and after row k of the records
AnchorRows == {j \in 1..Len(records) : AnchorText(records[j].original_date)}

AnchorsBefore(k) == {j \in AnchorRows : j < k}

AnchorsAfter(k) == {j \in AnchorRows : j > k}

NearestBefore(k) ==
    LET earlier == AnchorsBefore(k) IN CHOOSE j \in earlier : \A h \in earlier : h <= j

NearestAfter(k) ==
    LET after == AnchorsAfter(k) IN CHOOSE j \in after : \A h \in after : j <= h

(***************************************************************************)
(* C1 as stated: after one run of process_csv, a second run on the         *)
(* rewritten file returns 0 and changes no date field.                     *)
(***************************************************************************)
C1_SecondRunIsNoOp ==
    (pc = "done" /\ run = 2) => (ret = 0 /\ DateFields(file) = DateFields(before))

(***************************************************************************)
(* C1 amended: when the first run left no row verbatim in its repair loop  *)
(* (no inferred year fell outside [1800, 2100]), the second run returns 0  *)
(* and changes no date field.                                              *)
(***************************************************************************)
C1_SecondRunIsNoOpAfterFullRepair ==
    (pc = "done" /\ run = 2 /\ log[1].verbatim = 0)
        => (ret = 0 /\ DateFields(file) = DateFields(before))

C1_Witness ==
    /\ pc = "done"
    /\ run = 2
    /\ log[1].verbatim = 0
    /\ log[1].ret >= 2
    /\ wrote
    /\ ret = 0

(***************************************************************************)
(* C2: every data row whose date field is 4digits-2digits-2digits with a   *)
(* year in [1800, 2100] is written with the date field it was read with.   *)
(***************************************************************************)
C2_AnchorsPreserved ==
    Rewritten =>
        \A k \in WrittenRows :
            AnchorText(DateField(SourceLine(k)))
                => DateField(WrittenLine(k)) = DateField(SourceLine(k))

C2_Witness ==
    /\ Rewritten
    /\ run = 1
    /\ \E k \in WrittenRows, j \in WrittenRows :
          /\ j = k + 1
          /\ AnchorText(DateField(SourceLine(k)))
          /\ DateField(WrittenLine(k)) = DateField(SourceLine(k))
          /\ Repaired(j)

(***************************************************************************)
(* C3: a corrupted row k with nearest anchor before it at p and after it   *)
(* at n takes its year from the next anchor when n - k <= k - p (ties      *)
(* included), as next.year -/+ (n - k), and otherwise from the previous    *)
(* anchor, as prev.year +/- (k - p); with anchors of 1970 at index 0 and   *)
(* 1980 at index 10, the corrupted row at index 3 gets 1973.               *)
(***************************************************************************)
C3_NearestAnchor ==
    /\ \A k \in 1..Len(inferred) :
          (/\ ~AnchorText(records[k].original_date)
           /\ AnchorsBefore(k) # {}
           /\ AnchorsAfter(k) # {})
              => LET p == NearestBefore(k)
                     n == NearestAfter(k)
                 IN  inferred[k] =
                        IF n - k <= k - p
                        THEN {IF ascending
                              THEN YearOf(records[n].original_date) - (n - k)
                              ELSE YearOf(records[n].original_date) + (n - k)}
                        ELSE {IF ascending
                              THEN YearOf(records[p].original_date) + (k - p)
                              ELSE YearOf(records[p].original_date) - (k - p)}
    /\ \A x \in {L4968, L09A0} :
          (before = <<Hdr, L1970>> \o Repeat(x, 9) \o <<L1980>> /\ Len(inferred) >= 4)
              => inferred[4] = {1973}

C3_Witness ==
    /\ before = <<Hdr, L1970>> \o Repeat(L4968, 9) \o <<L1980>>
    /\ run = 1
    /\ Rewritten
    /\ inferred[4] = {1973}
    /\ inferred[6] = {1975}
    /\ YearOf(DateField(WrittenLine(4))) = 1973

(***************************************************************************)
(* C4 as stated: for the data rows 1970-01-01,10 / 09A0-01-01,11 /         *)
(* 1972-01-01,12 process_csv rewrites the second date to 1971-01-01 and    *)
(* returns 1.                                                              *)
(***************************************************************************)
C4_ScenarioKeepsMonthDay ==
    (before = <<Hdr, L1970, L09A0, L1972>> /\ run = 1 /\ pc = "done")
        => /\ DateField(file[3]) = Ymd(<<"1", "9", "7", "1">>, <<"0", "1">>, <<"0", "1">>)
           /\ ret = 1

(***************************************************************************)
(* C4 amended: for those rows process_csv rewrites the second date to      *)
(* 1971-12-30 (09A0-01-01 is not 4digits-2digits-2digits, so the month and *)
(* the day are the sentinel) and returns 1.                                *)
(***************************************************************************)
C4_ScenarioSentinel ==
    (before = <<Hdr, L1970, L09A0, L1972>> /\ run = 1 /\ pc = "done")
        => /\ file = <<Hdr, L1970,
                       Ymd(<<"1", "9", "7", "1">>, <<"1", "2">>, <<"3", "0">>) \o V11,
                       L1972>>
           /\ ret = 1

C4_Witness ==
    /\ before = <<Hdr, L1970, L09A0, L1972>>
    /\ run = 1
    /\ Rewritten
    /\ file # before

(***************************************************************************)
(* C5: a corrupted row whose inferred year is outside [1800, 2100] (1799,  *)
(* 2101) is written with the date field it was read with and is not        *)
(* counted in the return value.                                            *)
(***************************************************************************)
OutOfRangeRows ==
    {k \in 1..Len(inferred) :
        /\ ~AnchorText(records[k].original_date)
        /\ \E y \in inferred[k] : y < 1800 \/ y > 2100}

CorruptedRows == {k \in 1..Len(records) : ~AnchorText(records[k].original_date)}

C5_OutOfRangeVerbatim ==
    Rewritten =>
        /\ \A k \in OutOfRangeRows : DateField(WrittenLine(k)) = DateField(SourceLine(k))
        /\ ret <= Cardinality(CorruptedRows) - Cardinality(OutOfRangeRows)

C5_Witness ==
    /\ Rewritten
    /\ run = 1
    /\ \E k \in OutOfRangeRows, j \in OutOfRangeRows :
          /\ inferred[k] = {1799}
          /\ inferred[j] = {2101}
          /\ DateField(WrittenLine(k)) = DateField(SourceLine(k))
    /\ ret = 0

MonthFieldIsZero(d) ==
    Len(d) = 10 /\ d[5] = "-" /\ d[8] = "-" /\ SubSeq(d, 6, 7) = <<"0", "0">>

C7_MonthZeroGivesSentinel ==
    Rewritten =>
        \A k \in WrittenRows :
            (Repaired(k) /\ MonthFieldIsZero(DateField(SourceLine(k))))
                => /\ MonthOf(DateField(WrittenLine(k))) = 12
                   /\ DayOf(DateField(WrittenLine(k))) = 30

(***************************************************************************)
(* C7 amended: a corrupted row whose month field is "00" is repaired with  *)
(* month 12; its day is the original day when the original date is         *)
(* 4digits-2digits-2digits with a day in 1..31, and 30 otherwise.          *)
(***************************************************************************)
C7_MonthZeroGivesDecember ==
    Rewritten =>
        \A k \in WrittenRows :
            (Repaired(k) /\ MonthFieldIsZero(DateField(SourceLine(k))))
                => LET o == DateField(SourceLine(k))
                       w == DateField(WrittenLine(k))
                   IN  /\ DateShaped(w)
                       /\ MonthOf(w) = 12
                       /\ DayOf(w) = IF DateShaped(o) /\ DayOf(o) \in 1..31
                                     THEN DayOf(o) ELSE 30

C7_Witness ==
    /\ Rewritten
    /\ run = 1
    /\ \E k \in WrittenRows :
          /\ Repaired(k)
          /\ MonthFieldIsZero(DateField(SourceLine(k)))
          /\ DateShaped(DateField(SourceLine(k)))
          /\ MonthOf(DateField(WrittenLine(k))) = 12
          /\ DayOf(DateField(WrittenLine(k))) = 15

(***************************************************************************)
(* C8: the value returned is the number of written data rows whose date    *)
(* field differs from the date field of the input line they come from; a   *)
(* call that does not rewrite the file returns 0 and changes nothing.      *)
(***************************************************************************)
ChangedRows == {k \in WrittenRows : DateField(WrittenLine(k)) # DateField(SourceLine(k))}

C8_ReturnCountsChanges ==
    pc = "done" =>
        IF wrote
        THEN /\ ret = Cardinality(ChangedRows)
             /\ \A k \in ChangedRows : ~AnchorText(DateField(SourceLine(k)))
        ELSE ret = 0 /\ file = before

C8_Witness ==
    /\ Rewritten
    /\ run = 1
    /\ ret = 1
    /\ Cardinality(ChangedRows) = 1
    /\ Cardinality(AnchorRows) = 1
    /\ Cardinality(OutOfRangeRows) = 1

(***************************************************************************)
(* C9 as stated: a rewritten file has as many data rows as the input file, *)
(* in the same order.                                                      *)
(***************************************************************************)
C9_RowCountPreserved ==
    Rewritten =>
        /\ Len(file) = Len(before)
        /\ \A k \in 2..Len(file) : Payload(file[k]) = Payload(before[k])

(***************************************************************************)
(* C10: in every written data row the text after the first comma is the    *)
(* text after the first comma of the input line, further commas included.  *)
(***************************************************************************)
C10_PayloadPassthrough ==
    Rewritten =>
        \A k \in WrittenRows :
            /\ HasComma(WrittenLine(k))
            /\ Payload(WrittenLine(k)) = Payload(SourceLine(k))

C10_Witness ==
    /\ Rewritten
    /\ run = 1
    /\ \E k \in WrittenRows :
          /\ Repaired(k)
          /\ Payload(SourceLine(k)) = <<"1", ",", "2">>
          /\ Payload(WrittenLine(k)) = <<"1", ",", "2">>

(***************************************************************************)
(* C11: a rewritten file starts with the first line of the input, and the  *)
(* first line is never a data row or an anchor, even when it has the shape *)
(* of a date row.                                                          *)
(***************************************************************************)
CommaData == CommaLinesFrom(before, 2)

NoAnchorInData ==
    \A k \in 1..Len(CommaData) : ~AnchorText(DateField(before[CommaData[k]]))

C11_HeaderPreserved ==
    /\ Rewritten => file[1] = before[1]
    /\ (pc \in {"first", "direction", "loop"} \/ Rewritten)
          => /\ Len(records) = Len(CommaData)
             /\ \A k \in 1..Len(records) :
                   records[k].original_date = DateField(before[CommaData[k]])
    /\ (pc = "done" /\ Len(before) >= 1 /\ AnchorText(DateField(before[1])) /\ NoAnchorInData)
          => (~wrote /\ file = before /\ ret = 0)

C11_Witness ==
    /\ Rewritten
    /\ run = 1
    /\ before[1] = L1970
    /\ file[1] = L1970
    /\ Len(records) = 2
    /\ ret = 1

(***************************************************************************)
(* C12: a file in which no data row is an anchor is a no-op: process_csv   *)
(* returns 0 and never opens the file for writing.                         *)
(***************************************************************************)
C12_NoAnchorNoOp ==
    NoAnchorInData =>
        /\ ~wrote
        /\ file = before
        /\ pc \in {"read", "parse", "first", "done"}
        /\ pc = "done" => ret = 0

C12_Witness ==
    /\ NoAnchorInData
    /\ run = 1
    /\ pc = "done"
    /\ Len(records) = 3
    /\ first_valid_idx = 0
    /\ ret = 0
    /\ ~wrote

(***************************************************************************)
(* C13: a file with fewer than 2 lines (empty, or a header only) is a      *)
(* no-op: process_csv returns 0 right after reading and never writes.      *)
(***************************************************************************)
C13_ShortFileNoOp ==
    Len(before) < 2 =>
        /\ ~wrote
        /\ file = before
        /\ pc \in {"read", "done"}
        /\ pc = "done" => ret = 0

C13_Witness ==
    /\ Len(before) = 1
    /\ run = 1
    /\ pc = "done"
    /\ lines = before
    /\ ret = 0
    /\ ~wrote

(***************************************************************************)
(* C14: for a file of a header and exactly one data row (an anchor, a      *)
(* corrupted row or a row without a comma) process_csv returns 0 and the   *)
(* lines of the file after the call are its lines before the call.         *)
(***************************************************************************)
C14_OneRowUnchanged ==
    Len(before) = 2 =>
        /\ file = before
        /\ pc # "raised"
        /\ pc = "done" => ret = 0

C14_Witness ==
    /\ Len(before) = 2
    /\ run = 1
    /\ Rewritten
    /\ AnchorText(DateField(before[2]))
    /\ Payload(before[2]) = <<"1", ",", "2">>
    /\ file = before
    /\ ret = 0

(***************************************************************************)
(* C15: the file is treated as ascending exactly when the year of the last *)
(* anchor is greater than the year of the first anchor, or when it has one *)
(* anchor only; with two or more anchors whose first and last years are    *)
(* equal or decreasing it is descending.  The direction is computed once   *)
(* and used for every corrupted row.                                       *)
(***************************************************************************)
FirstAnchor == LET anchors == AnchorRows IN CHOOSE j \in anchors : \A h \in anchors : j <= h

LastAnchor == LET anchors == AnchorRows IN CHOOSE j \in anchors : \A h \in anchors : h <= j

FileAscending ==
    LET count == Cardinality(AnchorRows)
    IN  \/ count = 1
        \/ /\ count >= 2
           /\ YearOf(records[LastAnchor].original_date) > YearOf(records[FirstAnchor].original_date)

\* the year of row k projected from its nearest anchor, in direction asc
ProjectedYear(k, asc) ==
    LET after == AnchorsAfter(k)
        earlier == AnchorsBefore(k)
        b == NearestAfter(k)
        a == NearestBefore(k)
    IN  IF after # {} /\ (earlier = {} \/ b - k <= k - a)
        THEN IF asc
             THEN YearOf(records[b].original_date) - (b - k)
             ELSE YearOf(records[b].original_date) + (b - k)
        ELSE IF asc
             THEN YearOf(records[a].original_date) + (k - a)
             ELSE YearOf(records[a].original_date) - (k - a)

C15_Direction ==
    (pc = "loop" \/ Rewritten) =>
        LET asc == FileAscending
        IN  /\ ascending = asc
            /\ \A k \in 1..Len(inferred) :
                  ~AnchorText(records[k].original_date)
                      => inferred[k] = {ProjectedYear(k, asc)}

C15_Witness ==
    /\ Rewritten
    /\ run = 1
    /\ Cardinality(AnchorRows) >= 2
    /\ YearOf(records[LastAnchor].original_date) = YearOf(records[FirstAnchor].original_date)
    /\ ~ascending
    /\ \E k \in 1..Len(inferred), j \in 1..Len(inferred) :
          /\ k < FirstAnchor
          /\ j > LastAnchor
          /\ inferred[k] = {YearOf(records[FirstAnchor].original_date) + (FirstAnchor - k)}
          /\ inferred[j] = {YearOf(records[LastAnchor].original_date) - (j - LastAnchor)}

(***************************************************************************)
(* C16: in a file whose anchors are strictly ascending with a yearly step  *)
(* of 1 per row, a single corrupted row between an anchor of year y and an *)
(* anchor of year y + 2 gets the inferred year y + 1, which is both        *)
(* prev_anchor.year + 1 and next_anchor.year - 1.                          *)
(***************************************************************************)
StepOfOne ==
    \A a \in AnchorRows, b \in AnchorRows :
        a < b => YearOf(records[b].original_date) - YearOf(records[a].original_date) = b - a

C16_SingleGap ==
    ((pc = "loop" \/ Rewritten) /\ StepOfOne) =>
        \A k \in 1..Len(inferred) :
            (/\ ~AnchorText(records[k].original_date)
             /\ k - 1 \in AnchorRows
             /\ k + 1 \in AnchorRows)
                => /\ inferred[k] = {YearOf(records[k - 1].original_date) + 1}
                   /\ inferred[k] = {YearOf(records[k + 1].original_date) - 1}
                   /\ Rewritten =>
                         YearOf(DateField(WrittenLine(k)))
                             = YearOf(records[k - 1].original_date) + 1

C16_Witness ==
    /\ Rewritten
    /\ run = 1
    /\ StepOfOne
    /\ Len(records) = 5
    /\ AnchorRows = {1, 3, 5}
    /\ inferred[2] = {1971}
    /\ inferred[4] = {1973}

(***************************************************************************)
(* C17: a data row is an anchor if and only if its date field is exactly 4 *)
(* digits, '-', 2 digits, '-', 2 digits with the year in [1800, 2100];     *)
(* month and day play no part (1970-99-99 is an anchor), and a row of any  *)
(* other format, length or year is corrupted.                              *)
(***************************************************************************)
DecimalDigits == {"0", "1", "2", "3", "4", "5", "6", "7", "8", "9"}

FourTwoTwo(d) ==
    /\ Len(d) = 10
    /\ {d[1], d[2], d[3], d[4], d[6], d[7], d[9], d[10]} \subseteq DecimalDigits
    /\ d[5] = "-"
    /\ d[8] = "-"

IsAnchorDate(d) == FourTwoTwo(d) /\ YearOf(d) \in 1800..2100

AnchorDates == {j \in 1..Len(records) : IsAnchorDate(records[j].original_date)}

C17_AnchorClassification ==
    /\ (pc = "loop" \/ Rewritten)
          => /\ {valid_indices[k] : k \in 1..Len(valid_indices)} = AnchorDates
             /\ \A k \in 1..Len(inferred) : (inferred[k] = {}) <=> (k \in AnchorDates)
             /\ \A k \in 1..Len(inferred) :
                   k \in AnchorDates => records[k].fixed_date = records[k].original_date
    /\ (pc \in {"direction", "loop"} \/ Rewritten) => AnchorDates # {}
    /\ (pc = "done" /\ ~wrote /\ Len(before) >= 2) => AnchorDates = {}

C17_Witness ==
    /\ Rewritten
    /\ run = 1
    /\ \E k \in AnchorDates, j \in 1..Len(records) :
          /\ MonthOf(records[k].original_date) = 99
          /\ DayOf(records[k].original_date) = 99
          /\ AnchorDates = {k}
          /\ FourTwoTwo(records[j].original_date)
          /\ j \notin AnchorDates
          /\ inferred[j] # {}

(***************************************************************************)
(* C19: the file is opened for writing only after all of its lines have    *)
(* been read and the fixed_date of every row has been computed, so the     *)
(* content of the file is the original content in every state before the   *)
(* write: a failure there leaves the file as it was.                       *)
(***************************************************************************)
C19_ReadBeforeWrite ==
    /\ ~wrote => file = before
    /\ wrote => /\ lines = before
                /\ Len(inferred) = Len(records)
                /\ \A k \in 1..Len(records) : records[k].fixed_date # NoDate
                /\ file = <<before[1]>> \o [k \in 1..Len(records) |-> OutLine(records[k])]

C19_Witness ==
    /\ Rewritten
    /\ run = 1
    /\ lines = before
    /\ file # before
    /\ Len(records) >= 3
    /\ \A k \in 1..Len(records) : records[k].fixed_date # NoDate

(***************************************************************************)
(* C20: no content of the data rows (any date text, any length, an empty   *)
(* date field) produces an error: process_csv runs to its return, every    *)
(* row is classified as an anchor or as corrupted, and the rows that       *)
(* cannot be repaired are written verbatim.                                *)
(***************************************************************************)
C20_NoErrorState ==
    /\ pc # "raised"
    /\ pc \in {"read", "parse", "first", "direction", "loop", "done"}
    /\ pc = "loop" => (i <= Len(records) \/ ReadyToWrite(pc, i, records))
    /\ \A k \in 1..Len(inferred) :
          \/ /\ k \in AnchorDates
             /\ records[k].fixed_date = records[k].original_date
          \/ /\ k \notin AnchorDates
             /\ \E y \in inferred[k] :
                   records[k].fixed_date =
                       IF y \in 1800..2100
                       THEN format_date(y, MonthDay(records[k].parsed)[1],
                                        MonthDay(records[k].parsed)[2])
                       ELSE records[k].original_date
    /\ Rewritten =>
          \A k \in OutOfRangeRows : DateField(WrittenLine(k)) = records[k].original_date

C20_Witness ==
    /\ Rewritten
    /\ run = 1
    /\ \E k \in OutOfRangeRows, j \in 1..Len(records) :
          /\ records[k].original_date = <<>>
          /\ DateField(WrittenLine(k)) = <<>>
          /\ ~FourTwoTwo(records[j].original_date)
          /\ Len(records[j].original_date) = 10
          /\ FourTwoTwo(DateField(WrittenLine(j)))

(***************************************************************************)
(* C21: when process_csv writes the file, every record has a fixed_date,   *)
(* and the fixed_date of a record that is not an anchor is either a date   *)
(* synthesized from the nearest anchor and the distance to it, or exactly  *)
(* the original date text; the date written for the row is that value.     *)
(***************************************************************************)
Synthesized(k, asc) ==
    /\ FourTwoTwo(records[k].fixed_date)
    /\ YearOf(records[k].fixed_date) = ProjectedYear(k, asc)

AtWrite == ReadyToWrite(pc, i, records) \/ Rewritten

C21_FixedDateOutcome ==
    AtWrite =>
        LET asc == FileAscending
            anchors == AnchorRows
        IN  \A k \in 1..Len(records) :
                /\ records[k].fixed_date # NoDate
                /\ k \notin anchors =>
                       \/ records[k].fixed_date = records[k].original_date
                       \/ Synthesized(k, asc)
                /\ Rewritten => DateField(WrittenLine(k)) = records[k].fixed_date

C21_Witness ==
    /\ Rewritten
    /\ run = 1
    /\ \E k \in 1..Len(records), j \in 1..Len(records) :
          /\ k \notin AnchorRows
          /\ j \notin AnchorRows
          /\ Synthesized(k, FileAscending)
          /\ records[k].fixed_date # records[k].original_date
          /\ records[j].fixed_date = records[j].original_date
          /\ DateField(WrittenLine(j)) = records[j].original_date

(***************************************************************************)
(* C22 as stated: a corrupted date 4968-01-03 on the row immediately       *)
(* before an anchor of year 1973, in a file treated as ascending, is       *)
(* written as 1972-12-30.                                                  *)
(***************************************************************************)
Date19721230 == Ymd(<<"1", "9", "7", "2">>, <<"1", "2">>, <<"3", "0">>)

C22_DocstringExample ==
    (Rewritten /\ ascending) =>
        \A k \in 1..(Len(records) - 1) :
            (/\ records[k].original_date = Date4968
             /\ k + 1 \in AnchorRows
             /\ YearOf(records[k + 1].original_date) = 1973)
                => DateField(WrittenLine(k)) = Date19721230

(***************************************************************************)
(* C24: every date field that process_csv changes is written as 4 digits,  *)
(* '-', 2 digits, '-', 2 digits with the year in [1800, 2100], the month   *)
(* in 1..12 and the day in 1..31, so a later run classifies the row as     *)
(* valid.                                                                  *)
(***************************************************************************)
ChangedDate(k) == DateField(WrittenLine(k)) # DateField(SourceLine(k))

WellFormedDate(d) ==
    /\ FourTwoTwo(d)
    /\ YearOf(d) \in 1800..2100
    /\ MonthOf(d) \in 1..12
    /\ DayOf(d) \in 1..31

C24_RepairedIsAnchor ==
    Rewritten =>
        \A k \in WrittenRows :
            ChangedDate(k) =>
                /\ WellFormedDate(DateField(WrittenLine(k)))
                /\ IsValid(MakeRecord(Split(WrittenLine(k))))

C24_Witness ==
    /\ Rewritten
    /\ run = 1
    /\ \E k \in WrittenRows :
          /\ ChangedDate(k)
          /\ DateShaped(DateField(SourceLine(k)))
          /\ MonthOf(DateField(SourceLine(k))) = 13
          /\ DayOf(DateField(SourceLine(k))) = 32
          /\ WellFormedDate(DateField(WrittenLine(k)))
          /\ MonthOf(DateField(WrittenLine(k))) = 12
          /\ DayOf(DateField(WrittenLine(k))) = 30

(***************************************************************************)
(* C25: under repeated runs of process_csv on a file the anchor rows never *)
(* change and the number of corrupted rows never increases; with k the     *)
(* number of corrupted rows of the original file, one of the first k + 1   *)
(* runs returns 0, and every run after a run that returned 0 returns 0 and *)
(* leaves the file unchanged.                                              *)
(***************************************************************************)
\* the number of corrupted rows of the file the first run started from
OriginalCorrupted == IF run = 1 THEN CorruptedCount(before) ELSE log[1].corrupted

\* the return values of the runs so far, the current one included when it has returned
Returned == [r \in 1..Len(log) |-> log[r].ret] \o (IF pc = "done" THEN <<ret>> ELSE <<>>)

C25_Convergence ==
    pc = "done" =>
        LET k == OriginalCorrupted
            returned == Returned
            source == CommaLinesFrom(before, 2)
        IN  /\ CorruptedCount(file) <= CorruptedCount(before)
            /\ wrote => \A j \in WrittenRows :
                            AnchorText(DateField(before[source[j]]))
                                => WrittenLine(j) = before[source[j]]
            /\ ~wrote => file = before
            /\ Len(returned) >= k + 1 => \E r \in 1..(k + 1) : returned[r] = 0
            /\ \A r \in 1..Len(returned), s \in 1..Len(returned) :
                  (r < s /\ returned[r] = 0) => returned[s] = 0
            /\ (\E r \in 1..Len(log) : log[r].ret = 0) => file = before

C25_Witness ==
    /\ pc = "done"
    /\ run = 3
    /\ OriginalCorrupted = 2
    /\ Returned = <<1, 1, 0>>
    /\ CorruptedCount(file) = 0
    /\ file = before

(***************************************************************************)
(* C26: in a file treated as ascending in which the years of every two     *)
(* consecutive anchors at rows a < b differ by at least b - a, after       *)
(* process_csv the years of the rows holding a valid date (the anchors and *)
(* the repaired rows) are strictly increasing in row order, and a repaired *)
(* row between two anchors has a year strictly between their years.        *)
(***************************************************************************)
ConsecutiveAnchors(a, b) ==
    a \in AnchorRows /\ b \in AnchorRows /\ a < b
        /\ \A c \in AnchorRows : ~(a < c /\ c < b)

AnchorGapsWide ==
    \A a \in AnchorRows, b \in AnchorRows :
        ConsecutiveAnchors(a, b)
            => YearOf(records[b].original_date) - YearOf(records[a].original_date) >= b - a

\* the rows that hold a valid date after the run
ValidAfter == {k \in WrittenRows : AnchorText(DateField(WrittenLine(k)))}

RepairedRows == {k \in WrittenRows : k \notin AnchorRows /\ k \in ValidAfter}

C26_OrderPreserved ==
    (Rewritten /\ ascending /\ AnchorGapsWide) =>
        /\ \A j \in ValidAfter, k \in ValidAfter :
              j < k => YearOf(DateField(WrittenLine(j))) < YearOf(DateField(WrittenLine(k)))
        /\ \A k \in RepairedRows, a \in AnchorRows, b \in AnchorRows :
              (a < k /\ k < b)
                  => /\ YearOf(records[a].original_date) < YearOf(DateField(WrittenLine(k)))
                     /\ YearOf(DateField(WrittenLine(k))) < YearOf(records[b].original_date)

C26_Witness ==
    /\ Rewritten
    /\ run = 1
    /\ ascending
    /\ AnchorGapsWide
    /\ \E a \in AnchorRows, b \in AnchorRows :
          /\ b - a = 4
          /\ YearOf(records[b].original_date) - YearOf(records[a].original_date) = 10
          /\ {a + 1, a + 2, a + 3} \subseteq RepairedRows
          /\ YearOf(DateField(WrittenLine(a + 1))) = YearOf(records[a].original_date) + 1
          /\ YearOf(DateField(WrittenLine(a + 2))) = YearOf(records[b].original_date) - 2
          /\ YearOf(DateField(WrittenLine(a + 3))) = YearOf(records[b].original_date) - 1

(***************************************************************************)
(* C27: within one run a row repaired earlier in the loop is never used as *)
(* the previous or next anchor of another row: the loop changes only the   *)
(* fixed_date of the records, and the fixed_date of every row is what the  *)
(* repair of that row gives on the records as they were parsed, whichever  *)
(* rows have been repaired before it.                                      *)
(***************************************************************************)
\* the records as they were parsed, before the loop
ParsedRecords == BuildRecords(data_lines)

\* the fixed_date the repair gives row k on the records recs
OutcomeOn(recs, k) ==
    IF IsValid(recs[k]) THEN recs[k].original_date
    ELSE FixedDate(recs[k], InferYear(recs, k, ascending))

C27_OriginalAnchorsOnly ==
    (pc = "loop" \/ Rewritten) =>
        LET as_parsed == ParsedRecords
        IN  /\ Len(records) = Len(as_parsed)
            /\ \A k \in 1..Len(records) :
                  LET outcome == OutcomeOn(as_parsed, k)
                  IN  /\ records[k].original_date = as_parsed[k].original_date
                      /\ records[k].parsed = as_parsed[k].parsed
                      /\ records[k].value = as_parsed[k].value
                      /\ OutcomeOn(records, k) = outcome
                      /\ k <= Len(inferred) => records[k].fixed_date = outcome
                      /\ k > Len(inferred) => records[k].fixed_date = NoDate

C27_Witness ==
    /\ Rewritten
    /\ run = 1
    /\ \E k \in 2..(Len(records) - 1) :
          /\ k - 1 \in AnchorRows
          /\ AnchorsAfter(k - 1) = {}
          /\ records[k].fixed_date # records[k].original_date
          /\ AnchorText(records[k].fixed_date)
          /\ inferred[k + 1] = {YearOf(records[k - 1].original_date) + 2}
          /\ YearOf(records[k + 1].fixed_date) = YearOf(records[k].fixed_date) + 1

(***************************************************************************)
(* C28: in every run that reaches the repair loop the file has an anchor,  *)
(* so every corrupted row has an anchor before it or after it and its      *)
(* inferred_year is a number: no row is left with inferred_year None.      *)
(***************************************************************************)
LoopReached == pc = "loop" \/ (pc = "done" /\ first_valid_idx # 0)

C28_AnchorOnSomeSide ==
    LoopReached =>
        LET anchors == AnchorRows
        IN  /\ anchors # {}
            /\ \A k \in 1..Len(records) :
                  k \notin anchors =>
                      /\ \E j \in anchors : j < k \/ j > k
                      /\ k <= Len(inferred) => Cardinality(inferred[k]) = 1

C28_Witness ==
    /\ LoopReached
    /\ run = 1
    /\ Cardinality(AnchorRows) = 1
    /\ \E j \in 1..Len(inferred), k \in 1..Len(inferred) :
          /\ AnchorsBefore(j) = {}
          /\ AnchorsAfter(j) = {j + 1}
          /\ Cardinality(inferred[j]) = 1
          /\ AnchorsAfter(k) = {}
          /\ AnchorsBefore(k) = {k - 1}
          /\ Cardinality(inferred[k]) = 1

(***************************************************************************)
(* C23: detect_frequency looks at the first 100 dates only, keeps those    *)
(* that strptime parses as %Y-%m-%d, averages the strictly positive day    *)
(* gaps between consecutive kept dates and returns 'daily' for an average  *)
(* <= 7, 'monthly' for <= 45, 'quarterly' for <= 120 and 'yearly' above;   *)
(* it returns 'unknown' when fewer than 2 dates are given or parse, or     *)
(* when no gap is positive.                                                *)
(***************************************************************************)
Parses(d) == Strptime(d) # None

Looked == [k \in 1..(IF Len(dates) <= 100 THEN Len(dates) ELSE 100) |-> dates[k]]

Kept == SelectSeq(Looked, Parses)

DayOfKept(k) == Strptime(Kept[k])[1]

PositiveGaps == {k \in 2..Len(Kept) : DayOfKept(k) - DayOfKept(k - 1) > 0}

RECURSIVE GapTotal(_)
GapTotal(S) ==
    IF S = {} THEN 0
    ELSE LET k == CHOOSE h \in S : TRUE
         IN  (DayOfKept(k) - DayOfKept(k - 1)) + GapTotal(S \ {k})

\* the label of the average gap, computed in hundredths of a day
AverageLabel ==
    LET hundredths == (100 * GapTotal(PositiveGaps)) \div Cardinality(PositiveGaps)
        exact == (100 * GapTotal(PositiveGaps)) % Cardinality(PositiveGaps) = 0
        Over(t) == hundredths > 100 * t \/ (hundredths = 100 * t /\ ~exact)
    IN  IF ~Over(7) THEN "daily"
        ELSE IF ~Over(45) THEN "monthly"
        ELSE IF ~Over(120) THEN "quarterly"
        ELSE "yearly"

C23_DetectFrequency ==
    freq_pc = "returned" =>
        frequency = IF Len(dates) < 2 \/ Len(Kept) < 2 \/ PositiveGaps = {}
                    THEN "unknown"
                    ELSE AverageLabel

\* 99 equal dates and the 100th a day later give 'daily': the 101st date,
\* 699 days after the 100th, is not looked at
C23_Witness ==
    /\ freq_pc = "returned"
    /\ Len(dates) = 101
    /\ Parses(dates[101])
    /\ Strptime(dates[101])[1] - Strptime(dates[100])[1] = 699
    /\ Strptime(dates[100])[1] - Strptime(dates[99])[1] = 1
    /\ frequency = "daily"

(***************************************************************************)
(* C30 as stated: for every list of at most 100 valid dates,               *)
(* detect_frequency returns the same label for the list and for the list   *)
(* in reverse order.                                                       *)
(***************************************************************************)
C30_DirectionIndependent ==
    (/\ freq_pc = "returned"
     /\ Len(dates) <= 100
     /\ \A k \in 1..Len(dates) : FourTwoTwo(dates[k]) /\ Parses(dates[k]))
        => detect_frequency(Reversed(dates)) = frequency

(***************************************************************************)
(* C29 as stated: within one section process_files never copies two        *)
(* different source files to the same output path, so the number of files  *)
(* in the output section is the number of names recorded in results for    *)
(* that section.                                                           *)
(***************************************************************************)
OutputFiles(s) == {o \in output : o.section = s}

C29_NoOutputCollision ==
    \A s \in 1..Len(base_dir) : Cardinality(OutputFiles(s)) = Len(results[s])

(***************************************************************************)
(* C18 as stated: when reading or writing one CSV file fails inside        *)
(* process_csv, main continues with the next file, so when main has ended  *)
(* every other CSV file of the tree has been processed.                    *)
(***************************************************************************)
C18_BatchContinues ==
    main_pc \in {"complete", "raised"} =>
        \A s \in 1..Len(tree) :
            \A f \in 1..Len(tree[s].entries) :
                (tree[s].dir /\ tree[s].entries[f].csv /\ ~Raises(tree[s].entries[f]))
                    => <<s, f>> \in processed

====
